---- MODULE Spec2Model ----
(***************************************************************************)
(* agent-eyes relay (src/src/index.ts, version 1.0.3, lines 1-259).        *)
(*                                                                         *)
(* The relay is one Node.js process: every callback runs to completion, so *)
(* each callback of the source is one action.  The other processes of the  *)
(* host (whatever holds port 3001) are the environment.                    *)
(*                                                                         *)
(* Lines 262-412 of the same file hold version 1.0.2: the same buffer,     *)
(* listener and query handler, without the port arbitration.               *)
(*                                                                         *)
(* Spec is the relay from process start (arbitration, bind, a short run of *)
(* reports and queries); SpecRelay is the relay once it is listening and   *)
(* serving, run long enough to overflow the buffer.                        *)
(* SpecLive is Spec with every awaited callback eventually delivered.      *)
(*                                                                         *)
(* SpecClient is the reporting client (src/unnamed/part_000), the React    *)
(* component that connects to the relay's listener, beside a relay that    *)
(* is up and serving.                                                      *)
(***************************************************************************)
EXTENDS Integers, Sequences, FiniteSets, TLC

\* ------------------------------------------------------------------ bounds

\* accepted records per run of the relay specification (must exceed MAX_ERRORS)
MaxAccepted == 22
\* accepted records per run of the start-up specification
StartupFrames == 1
\* only the first MaxVaried accepted records vary in shape (with or without
\* type, stack and url); later ones have the shape the reporting client sends
MaxVaried == 1

\* connection attempts (new WebSocket) per run of the client specification
MaxAttempts == 4
\* payloads the client sends per run of the client specification
MaxSent == 2

\* ------------------------------------------------------- program constants

MAX_ERRORS == 20

\* ------------------------------------------------------------ environment

\* Process ids that may hold the relay port when the relay starts, and the
\* ones among them that are Node.js processes (prior relay instances).
PIDs == {1, 2, 3}
NodePids == {1, 2}
Kind(p) == IF p \in NodePids THEN "node" ELSE "foreign"

\* Client connections (sockets) the listener may see.
Conns == {"c1", "c2"}

\* Array objects: 0 is the module-level errorBuffer, the others are arrays
\* returned by getErrors() to a caller.
BufferRef == 0
SnapRefs == {1}

\* Operation names a query may carry.
ToolNames == {"get_browser_logs", "get_logs", "clear_logs"}

VARIABLES
    running,      \* the relay process is alive
    platform,     \* process.platform: "win32" or "unix"
    holds,        \* environment: pids currently bound to the port
    arbPc,        \* position of ensurePortAvailable
    probe,        \* the event that answered isPortInUse's bind ("none" before)
    portInUse,    \* ensurePortAvailable's portInUse: "unknown", "yes" or "no"
    enumCalls,    \* enumeration commands (netstat, lsof) started so far
    pids,         \* killProcessOnPort's pids, as enumerated (a sequence)
    killCalls,    \* termination calls issued so far, per pid
    killPending,  \* termination commands whose callback has not run yet
    terminated,   \* pids whose termination call reported success
    killed,       \* killProcessOnPort (win32): let killed
    remaining,    \* killProcessOnPort (win32): let remaining
    killResult,   \* what killProcessOnPort resolved to: "none", "true", "false"
    graceWaited,  \* the 500 ms timer of ensurePortAvailable has fired
    diag,         \* console.error lines, in order
    wsState,      \* listener lifecycle: unbound, binding, listening, bind-failed
    bindAttempts, \* number of times the listener bind was started
    mcpState,     \* query interface: notStarted, connecting, serving
    conns,        \* open client connections of the listener
    heap,         \* array objects: reference -> contents
    snaps,        \* references returned by getErrors() and still held by a caller
    accepted,     \* every record passed to addError, in arrival order
    last,         \* the handler invocation made by the most recent step
    cleanedUp,    \* reporting client: the effect's cleanup has run
    sock,         \* reporting client: wsRef.current (none, connecting, open,
                  \* closing: its close event is due, closed)
    timer,        \* reporting client: a setTimeout(connect) is pending
    attempts,     \* reporting client: calls of new WebSocket(WS_URL) so far
    sent          \* reporting client: payloads passed to ws.send so far

vars == <<running, platform, holds, arbPc, probe, portInUse, enumCalls, pids,
          killCalls, killPending, terminated, killed, remaining, killResult,
          graceWaited, diag,
          wsState, bindAttempts, mcpState, conns, heap, snaps, accepted, last,
          cleanedUp, sock, timer, attempts, sent>>

arbVars == <<platform, arbPc, probe, portInUse, enumCalls, pids, killCalls,
             killPending, terminated, killed, remaining, killResult,
             graceWaited>>
relayVars == <<conns, heap, snaps, accepted>>
clientVars == <<cleanedUp, sock, timer, attempts, sent>>
serverVars == <<running, holds, arbVars, diag, wsState, bindAttempts, mcpState,
               relayVars, last>>

\* ---------------------------------------------------------------- helpers

RECURSIVE SetToSeq(_)
SetToSeq(S) ==
    IF S = {} THEN <<>>
    ELSE LET m == CHOOSE x \in S : \A y \in S : x <= y
         IN <<m>> \o SetToSeq(S \ {m})

Range(s) == {s[i] : i \in 1..Len(s)}
Count(s, x) == Cardinality({i \in 1..Len(s) : s[i] = x})

\* -------------------------------------------------------------------- Init

NoText == [form |-> "none", entries |-> <<>>, name |-> ""]
NoFrame == [json |-> "none", message |-> -1, timestamp |-> -1,
            type |-> "absent", stack |-> <<>>, url |-> "absent"]
NoLast == [op |-> "none", conn |-> "", frame |-> NoFrame, name |-> "",
           threw |-> FALSE, isError |-> FALSE, text |-> NoText]

\* The reporting client before AgentEyesProvider is rendered.
ProviderNotMounted ==
    /\ cleanedUp = FALSE
    /\ sock = "none"
    /\ timer = FALSE
    /\ attempts = 0
    /\ sent = 0

Init ==
    /\ running = TRUE
    /\ platform \in {"win32", "unix"}
    /\ holds \in SUBSET PIDs
    /\ arbPc = "probing"
    /\ probe = "none"
    /\ portInUse = "unknown"
    /\ enumCalls = 0
    /\ pids = <<>>
    /\ killCalls = [p \in PIDs |-> 0]
    /\ killPending = {}
    /\ terminated = {}
    /\ killed = FALSE
    /\ remaining = 0
    /\ killResult = "none"
    /\ graceWaited = FALSE
    /\ diag = <<>>
    /\ wsState = "unbound"
    /\ bindAttempts = 0
    /\ mcpState = "notStarted"
    /\ conns = {}
    /\ heap = [r \in {BufferRef} |-> <<>>]
    /\ snaps = {}
    /\ accepted = <<>>
    /\ last = NoLast
    /\ ProviderNotMounted

\* ------------------------------------------------- port arbitration (start-up)

\* What the transient bind of isPortInUse can report, given who holds the port.
ProbeEvents == IF holds # {} THEN {"EADDRINUSE"} ELSE {"listening", "EACCES"}

\* isPortInUse resolving true whatever the server reports.
isPortInUse_always(ev) == TRUE

\* isPortInUse resolving true on every error event, whatever err.code is.
isPortInUse_anyError(ev) == ev # "listening"

\* isPortInUse: the value the promise resolves to, per server event.
isPortInUse(ev) == ev = "EADDRINUSE"

\* ensurePortAvailable, before the probe answers: its first await.
ProbeResult(ev) ==
    /\ running /\ arbPc = "probing"
    /\ ev \in ProbeEvents
    /\ probe' = ev
    /\ portInUse' = IF isPortInUse(ev) THEN "yes" ELSE "no"
    /\ IF isPortInUse(ev)
       THEN /\ diag' = Append(diag, "inUseAttemptingTakeover")
            /\ enumCalls' = enumCalls + 1
            /\ arbPc' = "enumerating"
       ELSE /\ diag' = diag
            /\ enumCalls' = enumCalls
            /\ arbPc' = "returned"
    /\ last' = NoLast
    /\ UNCHANGED <<clientVars,
                   running, platform, holds, pids, killCalls, killPending,
                   terminated, killed, remaining, killResult, graceWaited,
                   wsState, bindAttempts, mcpState, conns, heap, snaps,
                   accepted>>

\* killProcessOnPort collecting the pids in an array instead of a Set: a pid
\* listed on two lines is kept twice.
parsePids_noSet(plat, stdout) == stdout

\* The pids killProcessOnPort takes from the enumeration's output lines (one
\* pid per line): a Set on win32, the list as it is on unix.
parsePids(plat, stdout) ==
    IF plat = "win32" THEN SetToSeq(Range(stdout)) ELSE stdout

\* ensurePortAvailable returning after a takeover without the 500 ms wait.
afterKill_noWait(k) ==
    IF k THEN [log |-> <<"terminatedPrevious">>, pc |-> "returned"]
    ELSE [log |-> <<"couldNotTerminate", "anotherServiceMayUse">>,
          pc |-> "returned"]

\* ensurePortAvailable that, after a failed takeover, awaits a promise nobody
\* resolves: it never returns to main.
afterKill_hang(k) ==
    IF k THEN [log |-> <<"terminatedPrevious">>, pc |-> "grace"]
    ELSE [log |-> <<"couldNotTerminate", "anotherServiceMayUse">>,
          pc |-> "waiting"]

\* ensurePortAvailable with the 500 ms wait placed after the if/else: it
\* waits after a failed takeover too.
afterKill_alwaysWait(k) ==
    IF k THEN [log |-> <<"terminatedPrevious">>, pc |-> "grace"]
    ELSE [log |-> <<"couldNotTerminate", "anotherServiceMayUse">>,
          pc |-> "grace"]

\* ensurePortAvailable after killProcessOnPort resolved to k: the lines it
\* logs and where it goes next (the grace timer, or its return).
afterKill(k) ==
    IF k THEN [log |-> <<"terminatedPrevious">>, pc |-> "grace"]
    ELSE [log |-> <<"couldNotTerminate", "anotherServiceMayUse">>,
          pc |-> "returned"]

\* killProcessOnPort resolves to k and ensurePortAvailable resumes.
Resolve(k) ==
    /\ killResult' = IF k THEN "true" ELSE "false"
    /\ diag' = diag \o afterKill(k).log
    /\ arbPc' = afterKill(k).pc

\* The callback of the enumeration command (netstat | findstr, or lsof).
\* fail: the command itself failed; dup: netstat lists a pid on two lines
\* (an IPv4 and an IPv6 listener of one process).
EnumResult(fail, dup) ==
    /\ running /\ arbPc = "enumerating"
    /\ dup => (platform = "win32" /\ ~fail /\ holds # {})
    /\ LET hs == SetToSeq(holds)
           stdout == IF fail THEN <<>> ELSE IF dup THEN hs \o hs ELSE hs
           err == fail \/ holds = {}
           targets == parsePids(platform, stdout)
       IN IF err \/ stdout = <<>> \/ targets = <<>>
          THEN /\ Resolve(FALSE)
               /\ UNCHANGED <<pids, killCalls, killPending, killed, remaining>>
          ELSE /\ pids' = targets
               /\ killCalls' = [p \in PIDs |-> killCalls[p] + Count(targets, p)]
               /\ killPending' = Range(targets)
               /\ killed' = FALSE
               /\ remaining' = IF platform = "win32" THEN Len(targets) ELSE 0
               /\ arbPc' = "killing"
               /\ UNCHANGED <<killResult, diag>>
    /\ last' = NoLast
    /\ UNCHANGED <<clientVars,
                   running, platform, holds, probe, portInUse, enumCalls,
                   terminated, graceWaited, wsState, bindAttempts, mcpState,
                   conns, heap, snaps, accepted>>

\* win32: the callback of one taskkill.  The termination succeeds when the
\* process still exists and the relay is permitted to end it.
TaskkillDone(p, permitted) ==
    /\ running /\ arbPc = "killing" /\ platform = "win32"
    /\ p \in killPending
    /\ LET ok == p \in holds /\ permitted
           killed2 == killed \/ ok
           remaining2 == remaining - 1
       IN /\ holds' = IF ok THEN holds \ {p} ELSE holds
          /\ terminated' = IF ok THEN terminated \cup {p} ELSE terminated
          /\ killed' = killed2
          /\ remaining' = remaining2
          /\ killPending' = killPending \ {p}
          /\ IF remaining2 = 0
             THEN Resolve(killed2)
             ELSE UNCHANGED <<killResult, diag, arbPc>>
    /\ last' = NoLast
    /\ UNCHANGED <<clientVars,
                   running, platform, probe, portInUse, enumCalls, pids,
                   killCalls, graceWaited, wsState, bindAttempts, mcpState,
                   conns, heap, snaps, accepted>>

\* unix: the callback of the one kill -9 command; kill reports an error when
\* any of its targets could not be signalled.
KillDone(denied) ==
    /\ running /\ arbPc = "killing" /\ platform = "unix"
    /\ denied \subseteq Range(pids)
    /\ LET okSet == {p \in Range(pids) : p \in holds /\ p \notin denied}
           killErr == okSet # Range(pids)
       IN /\ holds' = holds \ okSet
          /\ terminated' = terminated \cup okSet
          /\ killPending' = {}
          /\ Resolve(~killErr)
    /\ last' = NoLast
    /\ UNCHANGED <<clientVars,
                   running, platform, probe, portInUse, enumCalls, pids,
                   killCalls, killed, remaining, graceWaited, wsState,
                   bindAttempts, mcpState, conns, heap, snaps, accepted>>

\* The 500 ms timer of ensurePortAvailable fires and it returns.
GraceElapsed ==
    /\ running /\ arbPc = "grace"
    /\ graceWaited' = TRUE
    /\ arbPc' = "returned"
    /\ last' = NoLast
    /\ UNCHANGED <<clientVars,
                   running, platform, holds, probe, portInUse, enumCalls,
                   pids, killCalls, killPending, terminated, killed, remaining,
                   killResult, diag, wsState, bindAttempts, mcpState, conns,
                   heap, snaps, accepted>>

\* Environment: a process holding the port exits on its own.
HolderExits(p) ==
    /\ running /\ arbPc # "probing" /\ wsState \in {"unbound", "binding"}
    /\ p \in holds
    /\ holds' = holds \ {p}
    /\ last' = NoLast
    /\ UNCHANGED <<clientVars,
                   running, arbVars, diag, wsState, bindAttempts, mcpState,
                   relayVars>>

\* How ensurePortAvailable ended: the port was not in use, the takeover
\* succeeded, or it could not terminate the owner.
ArbOutcome ==
    IF arbPc # "returned" THEN "pending"
    ELSE IF portInUse = "no" THEN "unbound"
    ELSE IF killResult = "true" THEN "success"
    ELSE "failed"

\* ----------------------------------------------------------- main, listener

\* main calling ensurePortAvailable() without await.
awaitEnsure_missing == TRUE

\* main: `await ensurePortAvailable()` lets main go on only once it returned.
awaitEnsure == arbPc = "returned"

\* main after the await: startWebSocketServer() starts the bind, and
\* startMcpServer() runs up to its own await, in the same turn.
MainContinue ==
    /\ running /\ awaitEnsure /\ wsState = "unbound"
    /\ wsState' = "binding"
    /\ bindAttempts' = bindAttempts + 1
    /\ mcpState' = "connecting"
    /\ last' = NoLast
    /\ UNCHANGED <<clientVars, running, holds, arbVars, diag, relayVars>>

\* What the listener's bind can report, given who holds the port.
BindEvents == IF holds # {} THEN {"EADDRINUSE"} ELSE {"listening", "EACCES"}

\* startWebSocketServer without its wss.on("error") handler.
wssErrorHandler_missing == FALSE

\* startWebSocketServer registers wss.on("error"): an "error" event with no
\* listener would be thrown and end the process.
wssErrorHandler == TRUE

\* The event that answers the listener's bind.
BindResult(ev) ==
    /\ running /\ wsState = "binding"
    /\ ev \in BindEvents
    /\ IF ev = "listening"
       THEN /\ wsState' = "listening"
            /\ UNCHANGED <<running, diag>>
       ELSE /\ wsState' = "bind-failed"
            /\ running' = wssErrorHandler
            /\ diag' = IF ~wssErrorHandler THEN diag
                       ELSE IF ev = "EADDRINUSE"
                            THEN diag \o <<"stillInUse", "wontCapture">>
                            ELSE Append(diag, "wsServerError")
    /\ last' = NoLast
    /\ UNCHANGED <<clientVars,
                   holds, arbVars, bindAttempts, mcpState, relayVars>>

\* startMcpServer: server.connect(transport) completes.
McpConnected ==
    /\ running /\ mcpState = "connecting"
    /\ mcpState' = "serving"
    /\ last' = NoLast
    /\ UNCHANGED <<clientVars,
                   running, holds, arbVars, diag, wsState, bindAttempts,
                   relayVars>>

\* ------------------------------------------------------------ error buffer

\* addError with pop() in place of shift(): the newest record is dropped.
addError_pop(buf, e) ==
    LET pushed == Append(buf, e)
    IN IF Len(pushed) > MAX_ERRORS THEN SubSeq(pushed, 1, Len(pushed) - 1)
       ELSE pushed

\* addError that empties the buffer down to one record when it overflows
\* (errorBuffer.length = 1 in place of shift()): a batched eviction.
addError_batch(buf, e) ==
    LET pushed == Append(buf, e)
    IN IF Len(pushed) > MAX_ERRORS THEN <<e>> ELSE pushed

\* addError that pushes now and leaves the shift to a later turn of the event
\* loop: other handlers see the buffer between the two.
addError_deferred(buf, e) == Append(buf, e)

\* addError: push, then shift once when the length exceeds MAX_ERRORS.
addError(buf, e) ==
    LET pushed == Append(buf, e)
    IN IF Len(pushed) > MAX_ERRORS THEN Tail(pushed) ELSE pushed

\* getErrors returning errorBuffer itself instead of a copy.
getErrors_alias(h, fresh) == [ref |-> BufferRef, heap |-> h]

\* getErrors: [...errorBuffer], a new array object (reference fresh) holding
\* the buffer's elements; the heap afterwards and the reference returned.
getErrors(h, fresh) ==
    [ref |-> fresh,
     heap |-> [r \in DOMAIN h \cup {fresh} |->
                  IF r = fresh THEN h[BufferRef] ELSE h[r]]]

\* --------------------------------------------------------- report listener

\* An inbound frame as JSON.parse sees it: text that does not parse, the
\* literal null, another non-object value, or an object.  Of an object:
\* message -1 is absent, 0 the empty string, k > 0 a non-empty text;
\* timestamp -1 is absent; stack <<>> is absent, else its lines.
Frame(j, m, t, ty, st, u) ==
    [json |-> j, message |-> m, timestamp |-> t, type |-> ty, stack |-> st,
     url |-> u]

\* The k-th report as the reporting client builds it (send, part_000 64-68):
\* timestamps increase with k.
ClientFrame(k) == Frame("object", k, 1000 * k, "unhandledrejection", <<>>, "u")

\* Well-formed reports of other shapes: with a four-line stack, and with
\* nothing but message and timestamp.
StackFrame(k) == Frame("object", k, 1000 * k, "error", <<1, 2, 3, 4>>, "u")
BareFrame(k) == Frame("object", k, 1000 * k, "absent", <<>>, "absent")

\* The frames a connection may deliver when k-1 records were accepted so far.
Frames(k) ==
    {ClientFrame(k)}
    \cup (IF k <= MaxVaried THEN {StackFrame(k), BareFrame(k)} ELSE {})
    \cup {Frame("garbage", -1, -1, "absent", <<>>, "absent"),
          Frame("null", -1, -1, "absent", <<>>, "absent"),
          Frame("primitive", -1, -1, "absent", <<>>, "absent"),
          [ClientFrame(k) EXCEPT !.message = -1],
          [ClientFrame(k) EXCEPT !.message = 0],
          [ClientFrame(k) EXCEPT !.timestamp = -1],
          [ClientFrame(k) EXCEPT !.timestamp = 0]}

\* The BrowserError object a parsed frame is.
Rec(f) == [type |-> f.type, message |-> f.message, stack |-> f.stack,
           timestamp |-> f.timestamp, url |-> f.url]

\* The handler's test without the timestamp conjunct.
accepts_messageOnly(f) == f.json = "object" /\ f.message > 0

\* The handler's test with `error.timestamp !== undefined` in place of the
\* truthiness of error.timestamp: epoch zero passes.
accepts_zeroTimestamp(f) ==
    f.json = "object" /\ f.message > 0 /\ f.timestamp >= 0

\* The message handler's test: JSON.parse succeeded, reading .message did not
\* throw, and error.message && error.timestamp is truthy.
accepts(f) == f.json = "object" /\ f.message > 0 /\ f.timestamp > 0

\* Whether an exception leaves the message handler: JSON.parse throws on
\* text that is not JSON and null.message throws, both inside the try block.
handlerThrows(f) == FALSE

\* ws.on("message"): one inbound frame on connection c.  cap bounds the run.
OnMessage(c, f, cap) ==
    /\ running /\ wsState = "listening"
    /\ c \in conns
    /\ f \in Frames(Len(accepted) + 1)
    /\ accepts(f) => Len(accepted) < cap
    /\ heap' = [heap EXCEPT ![BufferRef] =
                   IF accepts(f) THEN addError(@, Rec(f)) ELSE @]
    /\ accepted' = IF accepts(f) THEN Append(accepted, Rec(f)) ELSE accepted
    /\ running' = ~handlerThrows(f)
    /\ last' = [NoLast EXCEPT !.op = "message", !.conn = c, !.frame = f,
                              !.threw = handlerThrows(f)]
    /\ UNCHANGED <<clientVars,
                   holds, arbVars, diag, wsState, bindAttempts, mcpState,
                   conns, snaps>>

\* wss.on("connection"): a client connects; and a client's socket closes.
Connect(c) ==
    /\ running /\ wsState = "listening"
    /\ c \in Conns \ conns
    /\ conns' = conns \cup {c}
    /\ last' = NoLast
    /\ UNCHANGED <<clientVars,
                   running, holds, arbVars, diag, wsState, bindAttempts,
                   mcpState, heap, snaps, accepted>>

Disconnect(c) ==
    /\ running
    /\ c \in conns
    /\ conns' = conns \ {c}
    /\ last' = NoLast
    /\ UNCHANGED <<clientVars,
                   running, holds, arbVars, diag, wsState, bindAttempts,
                   mcpState, heap, snaps, accepted>>

\* --------------------------------------------------------- query interface

Min(a, b) == IF a < b THEN a ELSE b

\* Date.toLocaleTimeString: the time of day only (seconds since midnight).
toLocaleTimeString(ts) == (ts \div 1000) % 86400

\* String.toUpperCase on the type strings.
toUpperCase(t) ==
    CASE t = "error" -> "ERROR"
      [] t = "crash" -> "CRASH"
      [] t = "unhandledrejection" -> "UNHANDLEDREJECTION"
      [] OTHER -> t

\* One rendered entry: "[i+1] time | TYPE\n   message" and, when the record
\* has a stack, "\n   Stack: " with the stack's first three lines.
renderEntry(e, i) ==
    [num |-> i, time |-> toLocaleTimeString(e.timestamp),
     kind |-> toUpperCase(e.type), message |-> e.message,
     stack |-> SubSeq(e.stack, 1, Min(3, Len(e.stack)))]

\* The fixed text formatErrorsForDisplay returns for an empty buffer: "No
\* browser errors captured yet. Make sure:" and its three numbered lines.
Guidance == [form |-> "guidance", entries |-> <<>>, name |-> ""]

\* formatErrorsForDisplay: the text, or threw when e.type.toUpperCase() is
\* called on a record that has no type.
formatErrorsForDisplay(h) ==
    LET g == getErrors(h, -1)
        errors == g.heap[g.ref]
    IN IF Len(errors) = 0 THEN [threw |-> FALSE, text |-> Guidance]
       ELSE IF \E i \in 1..Len(errors) : errors[i].type = "absent"
       THEN [threw |-> TRUE, text |-> NoText]
       ELSE [threw |-> FALSE,
             text |-> [form |-> "entries",
                       entries |-> [i \in 1..Len(errors) |->
                                       renderEntry(errors[i], i)],
                       name |-> ""]]

\* The handler answering an unknown operation without the isError flag.
callTool_noErrorFlag(name, h) ==
    IF name = "get_browser_logs"
    THEN [threw |-> formatErrorsForDisplay(h).threw, isError |-> FALSE,
          text |-> formatErrorsForDisplay(h).text]
    ELSE [threw |-> FALSE, isError |-> FALSE,
          text |-> [form |-> "unknownTool", entries |-> <<>>, name |-> name]]

\* The CallToolRequestSchema handler's result for operation name.
callTool(name, h) ==
    IF name = "get_browser_logs"
    THEN [threw |-> formatErrorsForDisplay(h).threw, isError |-> FALSE,
          text |-> formatErrorsForDisplay(h).text]
    ELSE [threw |-> FALSE, isError |-> TRUE,
          text |-> [form |-> "unknownTool", entries |-> <<>>, name |-> name]]

\* A query arrives from the consumer.
CallTool(name) ==
    /\ running /\ mcpState = "serving"
    /\ name \in ToolNames
    /\ last' = [NoLast EXCEPT !.op = "call", !.name = name,
                              !.threw = callTool(name, heap).threw,
                              !.isError = callTool(name, heap).isError,
                              !.text = callTool(name, heap).text]
    /\ UNCHANGED <<clientVars,
                   running, holds, arbVars, diag, wsState, bindAttempts,
                   mcpState, relayVars>>

\* ------------------------------------------------- a caller of getErrors()

\* A caller takes a snapshot and keeps the array it was given.
TakeSnapshot ==
    /\ running /\ mcpState = "serving"
    /\ \E fresh \in SnapRefs \ DOMAIN heap :
          /\ heap' = getErrors(heap, fresh).heap
          /\ snaps' = snaps \cup {getErrors(heap, fresh).ref}
    /\ last' = [NoLast EXCEPT !.op = "snapshot"]
    /\ UNCHANGED <<clientVars,
                   running, holds, arbVars, diag, wsState, bindAttempts,
                   mcpState, conns, accepted>>

\* What a caller writes into an array it holds.
Marker == [type |-> "crash", message |-> 999, stack |-> <<>>,
           timestamp |-> 999000, url |-> "absent"]

\* The caller changes the array it was given: push(Marker), or length = 0.
MutateSnapshot(r, how) ==
    /\ running
    /\ r \in snaps
    /\ \/ /\ how = "push"
          /\ \A i \in 1..Len(heap[r]) : heap[r][i] # Marker
          /\ heap' = [heap EXCEPT ![r] = Append(@, Marker)]
       \/ /\ how = "clear"
          /\ heap[r] # <<>>
          /\ heap' = [heap EXCEPT ![r] = <<>>]
    /\ last' = [NoLast EXCEPT !.op = "mutate"]
    /\ UNCHANGED <<clientVars,
                   running, holds, arbVars, diag, wsState, bindAttempts,
                   mcpState, conns, snaps, accepted>>

\* ---------------------------------------------------------- specifications

\* The relay from process start, its reporting clients and its consumer.
Next ==
    \/ \E ev \in {"listening", "EADDRINUSE", "EACCES"} : ProbeResult(ev)
    \/ \E fail, dup \in BOOLEAN : EnumResult(fail, dup)
    \/ \E p \in PIDs, permitted \in BOOLEAN : TaskkillDone(p, permitted)
    \/ \E denied \in SUBSET PIDs : KillDone(denied)
    \/ GraceElapsed
    \/ \E p \in PIDs : HolderExits(p)
    \/ MainContinue
    \/ \E ev \in {"listening", "EADDRINUSE", "EACCES"} : BindResult(ev)
    \/ McpConnected
    \/ \E c \in Conns : Connect(c)
    \/ \E c \in Conns : Disconnect(c)
    \/ \E c \in Conns : \E f \in Frames(Len(accepted) + 1) :
          OnMessage(c, f, StartupFrames)
    \/ \E name \in ToolNames : CallTool(name)

Spec == Init /\ [][Next]_vars

\* The callbacks start-up waits for: the probe's server event, the exit of the
\* enumeration and termination commands, the 500 ms timer, the resumption of
\* main, the listener's bind event and the completion of server.connect.
StartupFairness ==
    /\ WF_vars(\E ev \in {"listening", "EADDRINUSE", "EACCES"} : ProbeResult(ev))
    /\ WF_vars(\E fail, dup \in BOOLEAN : EnumResult(fail, dup))
    /\ WF_vars(\E p \in PIDs, permitted \in BOOLEAN : TaskkillDone(p, permitted))
    /\ WF_vars(\E denied \in SUBSET PIDs : KillDone(denied))
    /\ WF_vars(GraceElapsed)
    /\ WF_vars(MainContinue)
    /\ WF_vars(\E ev \in {"listening", "EADDRINUSE", "EACCES"} : BindResult(ev))
    /\ WF_vars(McpConnected)

\* Start-up where every pending callback eventually runs: the operating
\* system answers a bind, child processes exit, timers fire, and the event
\* loop runs a callback that is ready.
SpecLive == Init /\ [][Next]_vars /\ StartupFairness

\* The relay once start-up found the port free, bound it and is serving, and
\* the reporting clients have connected; with a caller of getErrors() that
\* keeps the arrays it is given.
InitRelay ==
    /\ running = TRUE
    /\ platform = "unix"
    /\ holds = {}
    /\ arbPc = "returned"
    /\ probe = "listening"
    /\ portInUse = "no"
    /\ enumCalls = 0
    /\ pids = <<>>
    /\ killCalls = [p \in PIDs |-> 0]
    /\ killPending = {}
    /\ terminated = {}
    /\ killed = FALSE
    /\ remaining = 0
    /\ killResult = "none"
    /\ graceWaited = FALSE
    /\ diag = <<>>
    /\ wsState = "listening"
    /\ bindAttempts = 1
    /\ mcpState = "serving"
    /\ conns = Conns
    /\ heap = [r \in {BufferRef} |-> <<>>]
    /\ snaps = {}
    /\ accepted = <<>>
    /\ last = NoLast
    /\ ProviderNotMounted

NextRelay ==
    \/ \E c \in Conns : \E f \in Frames(Len(accepted) + 1) :
          OnMessage(c, f, MaxAccepted)
    \/ \E name \in ToolNames : CallTool(name)
    \/ TakeSnapshot
    \/ \E r \in snaps, how \in {"push", "clear"} : MutateSnapshot(r, how)

SpecRelay == InitRelay /\ [][NextRelay]_vars

\* ------------------------------------- reporting client (src/unnamed/part_000)

\* AgentEyesProvider's effect has just run in development mode: connect()
\* made the first socket and the error handlers are installed.  The relay is
\* up and serving, with its listener bound or not (the bind got EACCES).
InitClient ==
    /\ running = TRUE
    /\ platform = "unix"
    /\ holds = {}
    /\ arbPc = "returned"
    /\ probe = "listening"
    /\ portInUse = "no"
    /\ enumCalls = 0
    /\ pids = <<>>
    /\ killCalls = [p \in PIDs |-> 0]
    /\ killPending = {}
    /\ terminated = {}
    /\ killed = FALSE
    /\ remaining = 0
    /\ killResult = "none"
    /\ graceWaited = FALSE
    /\ wsState \in {"listening", "bind-failed"}
    /\ diag = IF wsState = "listening" THEN <<>> ELSE <<"wsServerError">>
    /\ bindAttempts = 1
    /\ mcpState = "serving"
    /\ conns = {}
    /\ heap = [r \in {BufferRef} |-> <<>>]
    /\ snaps = {}
    /\ accepted = <<>>
    /\ last = NoLast
    /\ cleanedUp = FALSE
    /\ sock = "connecting"
    /\ timer = FALSE
    /\ attempts = 1
    /\ sent = 0

\* The socket's open event: the relay's listener took the connection.
SocketOpens ==
    /\ sock = "connecting" /\ wsState = "listening"
    /\ sock' = "open"
    /\ UNCHANGED <<serverVars, cleanedUp, timer, attempts, sent>>

\* wsRef.current.onerror: the connection failed; the handler calls close(),
\* and the socket's close event follows.
SocketFails ==
    /\ sock = "connecting"
    /\ sock' = "closing"
    /\ UNCHANGED <<serverVars, cleanedUp, timer, attempts, sent>>

\* Environment: an open connection is lost; its close event follows.
SocketDrops ==
    /\ sock = "open"
    /\ sock' = "closing"
    /\ UNCHANGED <<serverVars, cleanedUp, timer, attempts, sent>>

\* wsRef.current.onclose: schedules connect() after RECONNECT_DELAY.
OnClose ==
    /\ sock = "closing"
    /\ sock' = "closed"
    /\ timer' = TRUE
    /\ UNCHANGED <<serverVars, cleanedUp, attempts, sent>>

\* The reconnect timer fires and connect() runs: new WebSocket(WS_URL), or,
\* when the constructor throws, the catch block schedules connect() again.
TimerFires(threw) ==
    /\ timer /\ attempts < MaxAttempts
    /\ attempts' = attempts + 1
    /\ IF threw
       THEN /\ timer' = TRUE
            /\ sock' = sock
       ELSE /\ timer' = FALSE
            /\ sock' = "connecting"
    /\ UNCHANGED <<serverVars, cleanedUp, sent>>

\* send, called by the console.error wrapper and the window listeners while
\* they are installed: the payload goes out only on an open socket.
Send ==
    /\ ~cleanedUp /\ sent < MaxSent
    /\ sock = "open"
    /\ sent' = sent + 1
    /\ UNCHANGED <<serverVars, cleanedUp, sock, timer, attempts>>

\* The effect's cleanup (the provider unmounts): the handlers are removed, a
\* pending timer is cleared and wsRef.current.close() is called, which has
\* an effect only on a socket that is connecting or open.
Cleanup ==
    /\ ~cleanedUp
    /\ cleanedUp' = TRUE
    /\ timer' = FALSE
    /\ sock' = IF sock \in {"connecting", "open"} THEN "closing" ELSE sock
    /\ UNCHANGED <<serverVars, attempts, sent>>

NextClient ==
    \/ SocketOpens
    \/ SocketFails
    \/ SocketDrops
    \/ OnClose
    \/ \E threw \in BOOLEAN : TimerFires(threw)
    \/ Send
    \/ Cleanup

SpecClient == InitClient /\ [][NextClient]_vars

\* ------------------------------------------------------------------ claims

\* What a call of getErrors() returns now: the contents of the new array.
Snapshot == getErrors(heap, -1).heap[getErrors(heap, -1).ref]

\* C1: after N accepted records, getErrors returns the last 20 of them in
\* arrival order when N > 20 (none of the N-20 earliest), and all N in
\* arrival order when N <= 20.
C1_LastTwentyInOrder ==
    LET n == Len(accepted)
    IN /\ Len(Snapshot) = IF n > 20 THEN 20 ELSE n
       /\ \A i \in 1..Len(Snapshot) :
             Snapshot[i] = accepted[n - Len(Snapshot) + i]
       /\ \A j \in 1..(n - 20) :
             \A i \in 1..Len(Snapshot) : Snapshot[i] # accepted[j]

\* C1 witness: 22 records were accepted, and the snapshot starts at the third.
C1_Witness ==
    /\ Len(accepted) = 22
    /\ Len(Snapshot) = 20
    /\ Snapshot[1] = accepted[3]
    /\ Snapshot[1].message = 3

\* C3: a frame that does not parse, or that parses with an empty or missing
\* message or a missing timestamp.
Malformed(f) == f.json # "object" \/ f.message <= 0 \/ f.timestamp = -1

\* C3: a malformed frame leaves the buffer as it was, raises nothing out of
\* the handler and leaves the relay listening with its connections; after
\* it, a well-formed frame on any open connection is still taken, and a
\* well-formed frame that arrives is appended.
C3_MalformedDropped ==
    /\ [][(last'.op = "message" /\ Malformed(last'.frame)) =>
            /\ heap'[BufferRef] = heap[BufferRef]
            /\ accepted' = accepted
            /\ ~last'.threw
            /\ running'
            /\ wsState' = "listening"
            /\ conns' = conns]_vars
    /\ []((last.op = "message" /\ Malformed(last.frame)
           /\ Len(accepted) < MaxAccepted) =>
            \A c \in conns :
               ENABLED OnMessage(c, ClientFrame(Len(accepted) + 1), MaxAccepted))
    /\ [][(last'.op = "message" /\ last'.frame = ClientFrame(Len(accepted) + 1)) =>
            /\ Len(heap'[BufferRef]) >= 1
            /\ heap'[BufferRef][Len(heap'[BufferRef])] = Rec(last'.frame)]_vars

\* C3 witness: the literal null arrived on c1 while the buffer was full, the
\* buffer is still full, and c2 can deliver the next report.
C3_Witness ==
    /\ last.op = "message" /\ last.conn = "c1" /\ last.frame.json = "null"
    /\ Len(heap[BufferRef]) = 20
    /\ Len(accepted) = 21
    /\ ENABLED OnMessage("c2", ClientFrame(22), MaxAccepted)

\* C4: an array returned by getErrors is not changed by later addError calls
\* (appends and evictions), and changing it does not change the buffer.
C4_SnapshotIndependent ==
    [][/\ last'.op = "message" =>
             \A r \in snaps : r \in DOMAIN heap' /\ heap'[r] = heap[r]
       /\ last'.op = "mutate" => heap'[BufferRef] = heap[BufferRef]]_vars

\* C4 witness: a snapshot taken of a full buffer is held, and a record
\* accepted since then evicted the oldest one.
C4_Witness ==
    /\ 1 \in snaps
    /\ Len(heap[1]) = 20
    /\ last.op = "message" /\ accepts(last.frame)
    /\ heap[1][2] = heap[BufferRef][1]
    /\ heap[1][1] # heap[BufferRef][1]

\* C5: get_browser_logs on an empty buffer returns the fixed guidance text
\* (not an empty string); on a buffer of len >= 1 records it returns len
\* rendered entries, entry i numbered i and rendering the i-th oldest record.
C5_OneEntryPerRecord ==
    (last.op = "call" /\ last.name = "get_browser_logs") =>
        LET buf == heap[BufferRef]
        IN IF buf = <<>>
           THEN ~last.threw /\ last.text = Guidance
           ELSE /\ ~last.threw
                /\ last.text.form = "entries"
                /\ Len(last.text.entries) = Len(buf)
                /\ \A i \in 1..Len(buf) :
                      /\ last.text.entries[i].num = i
                      /\ last.text.entries[i].message = buf[i].message

\* C10: a query for an operation other than get_browser_logs returns a result
\* with the error flag set and a text naming the operation, throws nothing
\* and leaves the buffer as it was; a get_browser_logs query never has the
\* error flag set.
C10_UnknownOperation ==
    [][last'.op = "call" =>
          /\ heap' = heap
          /\ running'
          /\ IF last'.name = "get_browser_logs"
             THEN ~last'.isError
             ELSE /\ last'.isError
                  /\ ~last'.threw
                  /\ last'.text.form = "unknownTool"
                  /\ last'.text.name = last'.name]_vars

\* C10 witness: clear_logs was asked of a relay holding records, and the
\* answer is an error result naming it.
C10_Witness ==
    /\ last.op = "call" /\ last.name = "clear_logs"
    /\ last.isError /\ last.text.name = "clear_logs"
    /\ Len(heap[BufferRef]) = 20

\* C2: when a process holding the port is foreign (not Node.js), arbitration
\* issues no termination call at all, whatever the other candidates are; a
\* foreign process is never sent a termination call.
C2_ForeignNeverTerminated ==
    \A p \in PIDs :
        Kind(p) = "foreign" =>
            /\ killCalls[p] = 0
            /\ p \in Range(pids) => \A q \in PIDs : killCalls[q] = 0

\* The lines ensurePortAvailable logs when it arbitrates.
TakeoverLines ==
    {"inUseAttemptingTakeover", "terminatedPrevious", "couldNotTerminate",
     "anotherServiceMayUse"}

\* C6: when the probe finds the port free, arbitration enumerates no owner,
\* issues no termination call, does not wait the grace interval, and ends
\* with the outcome unbound.
C6_FreePortUnbound ==
    probe = "listening" =>
        /\ enumCalls = 0
        /\ pids = <<>>
        /\ \A p \in PIDs : killCalls[p] = 0
        /\ ~graceWaited
        /\ arbPc = "returned"
        /\ ArbOutcome = "unbound"
        /\ Range(diag) \cap TakeoverLines = {}

\* C6 witness: the probe found the port free and the listener is bound.
C6_Witness ==
    /\ probe = "listening"
    /\ ArbOutcome = "unbound"
    /\ wsState = "listening"

\* C7: the port was held by N compatible pids and every termination
\* succeeded.
AllCompatibleTerminated ==
    /\ pids # <<>>
    /\ Range(pids) \subseteq NodePids
    /\ Range(pids) \subseteq terminated

\* C7 as stated: exactly N termination calls, one per pid, then the grace
\* wait, and only then the report of success and the return to start-up.
C7_SuccessReportedAfterGrace ==
    AllCompatibleTerminated =>
        /\ \A p \in PIDs : killCalls[p] = IF p \in Range(pids) THEN 1 ELSE 0
        /\ ("terminatedPrevious" \in Range(diag) \/ killResult = "true"
            \/ arbPc = "returned") => graceWaited

\* C7 amended: exactly N termination calls, one per pid; then success is
\* reported; then the grace interval is waited; and only then arbitration
\* returns to the start-up sequence, which has not started the bind before.
C7_TakeoverThenGrace ==
    AllCompatibleTerminated =>
        /\ \A p \in PIDs : killCalls[p] = IF p \in Range(pids) THEN 1 ELSE 0
        /\ killPending = {}
        /\ killResult = "true"
        /\ diag = <<"inUseAttemptingTakeover", "terminatedPrevious">>
              \o SubSeq(diag, 3, Len(diag))
        /\ arbPc \in {"grace", "returned"}
        /\ arbPc = "returned" <=> graceWaited
        /\ ArbOutcome \in {"pending", "success"}
        /\ ~graceWaited => wsState = "unbound"

\* C7 witness: two compatible pids were terminated, the grace interval was
\* waited and arbitration returned success.
C7_Witness ==
    /\ AllCompatibleTerminated
    /\ Cardinality(Range(pids)) = 2
    /\ graceWaited
    /\ ArbOutcome = "success"

\* C8: the listener's bind is started only when arbitration has returned:
\* never while the probe, the enumeration, a termination or the grace wait
\* is in progress.
C8_BindAfterArbitration ==
    /\ [](bindAttempts > 0 =>
            /\ arbPc = "returned"
            /\ probe # "none"
            /\ killPending = {}
            /\ killResult = "true" => graceWaited)
    /\ [][wsState' # wsState /\ wsState = "unbound" => arbPc = "returned"]_vars

\* C8 witness: the bind is in progress after a takeover and its grace wait.
C8_Witness ==
    /\ wsState = "binding"
    /\ killResult = "true"
    /\ graceWaited

\* C9: when the one bind attempt fails, the relay keeps running and does not
\* bind again: the listener stays bind-failed, the query interface has been
\* started and answers get_browser_logs, and the buffer stays empty.
C9_BindFailedKeepsServing ==
    /\ [](wsState = "bind-failed" =>
            /\ running
            /\ bindAttempts = 1
            /\ heap[BufferRef] = <<>>
            /\ accepted = <<>>
            /\ conns = {}
            /\ mcpState \in {"connecting", "serving"}
            /\ mcpState = "connecting" => ENABLED McpConnected
            /\ mcpState = "serving" => ENABLED CallTool("get_browser_logs")
            /\ (last.op = "call" /\ last.name = "get_browser_logs") =>
                  ~last.threw /\ ~last.isError /\ last.text = Guidance)
    /\ [][wsState = "bind-failed" =>
            wsState' = "bind-failed" /\ bindAttempts' = bindAttempts]_vars

\* C9 witness: the port is still held, the bind failed, and a
\* get_browser_logs query was answered with the guidance text.
C9_Witness ==
    /\ wsState = "bind-failed"
    /\ holds # {}
    /\ last.op = "call" /\ last.name = "get_browser_logs"
    /\ last.text = Guidance

\* C11: whatever accepted frames filled the buffer (a type or a stack may be
\* missing from them), a get_browser_logs query completes with a text, the
\* guidance or the entries, and the buffer still holds what it held.
C11_GetLogsNeverFails ==
    (last.op = "call" /\ last.name = "get_browser_logs") =>
        /\ ~last.threw
        /\ last.text.form \in {"guidance", "entries"}
        /\ LET n == Len(accepted)
           IN heap[BufferRef] = SubSeq(accepted, n - Min(n, MAX_ERRORS) + 1, n)

\* C12: the entry rendered for a record that carries a url shows that url,
\* next to the record's time, type, message and stack.
C12_EntryShowsUrl ==
    (last.op = "call" /\ last.name = "get_browser_logs" /\ ~last.threw) =>
        \A i \in 1..Len(last.text.entries) :
            LET e == heap[BufferRef][i]
                shown == last.text.entries[i]
            IN e.url # "absent" =>
                  /\ "url" \in DOMAIN shown
                  /\ shown.url = e.url
                  /\ shown.time = toLocaleTimeString(e.timestamp)
                  /\ shown.kind = toUpperCase(e.type)
                  /\ shown.message = e.message

\* The situation arbitration met on an occupied port, told from what happened:
\* nothing was enumerated, a candidate was not a Node.js process, every
\* candidate was terminated, or a termination was tried and failed.
Situation ==
    IF pids = <<>> THEN "no_process"
    ELSE IF \E p \in Range(pids) : Kind(p) # "node" THEN "not_node"
    ELSE IF Range(pids) \subseteq terminated THEN "success"
    ELSE "kill_failed"

\* What the operator reads in the diagnostics once arbitration has returned:
\* "Successfully terminated previous instance." or "Could not terminate
\* process on port ...", the only two reports ensurePortAvailable writes.
ReportedOutcome ==
    IF \E i \in 1..Len(diag) : diag[i] = "terminatedPrevious" THEN "success"
    ELSE IF \E i \in 1..Len(diag) : diag[i] = "couldNotTerminate"
    THEN "kill_failed"
    ELSE "none"

\* C13: on an occupied port the reported outcome tells the four situations
\* apart: nothing to terminate, a foreign owner refused, a termination tried
\* and failed, and success each have a report of their own.
C13_OutcomeTellsSituation ==
    (arbPc = "returned" /\ portInUse = "yes") => ReportedOutcome = Situation

\* C14: the buffer never holds more than 20 records in a state a query or
\* another handler can see; an accepted insertion into a buffer of 20 removes
\* the head and nothing else, and one into a shorter buffer removes nothing.
C14_OneHeadEviction ==
    /\ [](Len(heap[BufferRef]) <= 20)
    /\ [][accepted' # accepted =>
            LET buf == heap[BufferRef]
                e == accepted'[Len(accepted')]
            IN heap'[BufferRef] =
                  IF Len(buf) = 20 THEN Append(Tail(buf), e)
                  ELSE Append(buf, e)]_vars

\* C14 witness: an accepted record has just gone into a buffer that was full,
\* the buffer holds 20 and the record that was second is now its head.
C14_Witness ==
    /\ Len(accepted) = 22
    /\ last.op = "message" /\ accepts(last.frame)
    /\ Len(heap[BufferRef]) = 20
    /\ heap[BufferRef][1] = accepted[3]
    /\ heap[BufferRef][20] = Rec(last.frame)

\* C15: whatever start-up meets (port free, compatible or foreign owner,
\* enumeration failing or empty, termination failing, bind failing), the
\* process is never ended, arbitration eventually returns and the query
\* interface eventually serves.
C15_StartupCompletes ==
    /\ []running
    /\ <>(arbPc = "returned")
    /\ <>(mcpState = "serving")

\* C15 witness: the takeover failed, the bind failed as well, and the query
\* interface is serving in the running process.
C15_Witness ==
    /\ running
    /\ killResult = "false" /\ pids # <<>>
    /\ wsState = "bind-failed"
    /\ mcpState = "serving"

\* C16: takeover success is declared, and the grace wait made, only when every
\* termination call issued has reported and every one of them succeeded; when
\* the termination of some candidate failed the outcome is failure and there
\* is no grace wait.
C16_SuccessOnlyIfAllSucceeded ==
    /\ (killResult = "true" \/ arbPc = "grace" \/ graceWaited) =>
          /\ killPending = {}
          /\ Range(pids) \subseteq terminated
    /\ (killResult # "none" /\ ~(Range(pids) \subseteq terminated)) =>
          /\ killResult = "false"
          /\ arbPc = "returned" /\ ~graceWaited

\* C17: when every candidate is a Node.js process and each of them either was
\* terminated or had already exited on its own when its termination call ran
\* (so that call reported an error), the takeover is reported as a success.
C17_ExitedOwnerIsSuccess ==
    [][(/\ killResult = "none" /\ killResult' # "none"
        /\ pids # <<>>
        /\ \A p \in Range(pids) : Kind(p) = "node"
        /\ \E p \in killPending : p \notin holds
        /\ \A p \in Range(pids) :
              p \in terminated' \/ (p \in killPending /\ p \notin holds))
       => killResult' = "true"]_vars

C19_OnePassOneCallPerPid ==
    /\ [](/\ enumCalls <= 1
          /\ \A p \in PIDs : killCalls[p] <= 1
          /\ \A p \in PIDs : killCalls[p] = 1 => p \in Range(pids))
    /\ [][probe # "none" => probe' = probe]_vars
    /\ [][arbPc = "returned" =>
            /\ arbPc' = "returned"
            /\ UNCHANGED <<probe, enumCalls, pids, killCalls>>]_vars

\* C19 witness: on win32 two pids were enumerated, each got one termination
\* call, one call succeeded and the other failed, and arbitration is over
\* while the listener's bind is under way.
C19_Witness ==
    /\ platform = "win32"
    /\ Len(pids) = 2
    /\ \A p \in Range(pids) : killCalls[p] = 1
    /\ \E p \in Range(pids) : p \in terminated
    /\ \E p \in Range(pids) : p \notin terminated
    /\ enumCalls = 1
    /\ arbPc = "returned" /\ wsState = "bind-failed"

\* C20: a frame is accepted exactly when it parses to an object, its message
\* is present and not empty and its timestamp is present and not 0; a frame
\* whose timestamp is 0 leaves the buffer unchanged, as one without a
\* timestamp does.
C20_AcceptedIffValid ==
    [][last'.op = "message" =>
          LET f == last'.frame
              valid == /\ f.json = "object"
                       /\ f.message \notin {-1, 0}
                       /\ f.timestamp \notin {-1, 0}
          IN IF valid
             THEN /\ accepted' = Append(accepted, Rec(f))
                  /\ heap'[BufferRef][Len(heap'[BufferRef])] = Rec(f)
             ELSE /\ accepted' = accepted
                  /\ heap'[BufferRef] = heap[BufferRef]]_vars

\* C20 witness: a report with a message and timestamp 0 arrived at a full
\* buffer, and the buffer still ends with the record accepted before it.
C20_Witness ==
    /\ last.op = "message"
    /\ last.frame.json = "object" /\ last.frame.message > 0
    /\ last.frame.timestamp = 0
    /\ Len(accepted) = 22 /\ Len(heap[BufferRef]) = 20
    /\ heap[BufferRef][20] = accepted[22]
    /\ heap[BufferRef][20].timestamp = 22000

\* C21: with frames arriving on several connections and queries in between,
\* every state a handler can see holds the buffer after whole insertions: at
\* most 20 records, each accepted record once while it is among the last 20
\* accepted and not at all afterwards; a query changes nothing and renders
\* that whole buffer; and a record accepted from a connection is placed after
\* every record already held, so that the records of one connection keep
\* their order of arrival.
C21_InsertionsAtomic ==
    /\ [](LET buf == heap[BufferRef]
              n == Len(accepted)
          IN /\ Len(buf) = Min(n, 20)
             /\ \A j \in 1..n :
                   Count(buf, accepted[j]) = IF j > n - 20 THEN 1 ELSE 0)
    /\ [][(last'.op = "call" /\ last'.name = "get_browser_logs") =>
            /\ heap' = heap /\ accepted' = accepted
            /\ ~last'.threw =>
                  Len(last'.text.entries) = Len(heap[BufferRef])]_vars
    /\ [][\A c \in Conns :
            (last'.op = "message" /\ last'.conn = c /\ accepted' # accepted) =>
               LET old == heap[BufferRef]
                   new == heap'[BufferRef]
                   kept == SubSeq(new, 1, Len(new) - 1)
               IN /\ new[Len(new)] = Rec(last'.frame)
                  /\ Count(old, Rec(last'.frame)) = 0
                  /\ kept = SubSeq(old, Len(old) - Len(kept) + 1, Len(old))]_vars

\* C21 witness: 22 records were accepted, and a query that followed rendered
\* the 20 records from the third to the last, in that order.
C21_Witness ==
    /\ Len(accepted) = 22
    /\ last.op = "call" /\ last.name = "get_browser_logs" /\ ~last.threw
    /\ Len(last.text.entries) = 20
    /\ last.text.entries[1].message = accepted[3].message
    /\ last.text.entries[20].message = accepted[22].message

\* C22: once the client's cleanup has run, no reconnect timer is pending and
\* none gets scheduled, not even by the close event of the socket the cleanup
\* closed, and no connection attempt is made any more.
C22_NoReconnectAfterCleanup ==
    /\ [](cleanedUp => ~timer)
    /\ [][cleanedUp => attempts' = attempts]_vars

\* C23: when the probe's bind fails with an error other than EADDRINUSE, the
\* port counts as not in use: no enumeration, no termination call, no
\* takeover line and no grace wait; ensurePortAvailable returns at once and
\* start-up goes on to the listener's bind.
C23_OtherProbeErrorIsFree ==
    (probe \notin {"none", "listening", "EADDRINUSE"}) =>
        /\ portInUse = "no"
        /\ enumCalls = 0
        /\ pids = <<>>
        /\ \A p \in PIDs : killCalls[p] = 0
        /\ killResult = "none"
        /\ ~graceWaited
        /\ Range(diag) \cap TakeoverLines = {}
        /\ arbPc = "returned"
        /\ running
        /\ wsState = "unbound" => (bindAttempts = 0 /\ ENABLED MainContinue)

\* C23 witness: the probe got EACCES, nothing was enumerated or terminated,
\* and the listener's bind was then attempted once and reported its error.
C23_Witness ==
    /\ probe = "EACCES"
    /\ enumCalls = 0
    /\ bindAttempts = 1
    /\ wsState = "bind-failed"
    /\ diag = <<"wsServerError">>

====
